---- MODULE Spec2Model ----
(***************************************************************************)
(* Model of streamlit_muuto_lookup_app.py: the Muuto item number           *)
(* converter.  Strings are sequences of one-character strings, so that     *)
(* stripping, splitting and lower-casing are computed and not assumed.     *)
(***************************************************************************)
EXTENDS Integers, Sequences, FiniteSets, TLC

VARIABLES
    gsheets_url_raw,  \* the link in the st.text_input of step 1
    csv_url,          \* to_csv_export_url(gsheets_url_raw)
    sheet,            \* what the sheet service holds for the default document
    mapping_df,       \* the table the last run loaded
    colmap,           \* map_case_insensitive(mapping_df, required)
    raw_input,        \* the text in the st.text_area of step 2
    ids,              \* parse_pasted_ids(raw_input)
    not_found,        \* the tokens the last run listed as not matched
    ordered,          \* the result table of the last run
    ran,              \* the stages the last run executed
    messages,         \* the info, warning and error boxes the last run showed
    event             \* what caused the last run (or the last call)

vars == <<gsheets_url_raw, csv_url, sheet, mapping_df, colmap,
          raw_input, ids, not_found, ordered, ran, messages, event>>

(* ------------------------------ bounds -------------------------------- *)

MaxRawLen == 5
MaxUrlLen == 6
MaxCols == 3
MaxRows == 2
MaxSheetRows == 2
MaxPasteLen == 3

(* ------------------------- string primitives -------------------------- *)

\* Python None, kept a sequence so that it compares with strings.
Null == <<"None">>

\* All sequences over S of length at most n.
SeqsUpTo(S, n) == UNION {[1..k -> S] : k \in 0..n}

Range(s) == {s[i] : i \in 1..Len(s)}

\* F(v) with v evaluated once: a local constant of the code, whose value is
\* computed where it is assigned and not where it is read.
Bind(v, F(_)) == CHOOSE y \in {F(x) : x \in {v}} : TRUE

\* The least element of a non-empty set of numbers.
First(S) == CHOOSE q \in S : \A r \in S : q <= r

\* What str.strip() with no argument removes (the whitespace the inputs use).
Whitespace == {" "}

\* str.strip(chars): drop leading and trailing characters that are in chars.
RECURSIVE LStrip(_, _)
LStrip(s, chars) ==
    IF s # <<>> /\ Head(s) \in chars THEN LStrip(Tail(s), chars) ELSE s

RECURSIVE RStrip(_, _)
RStrip(s, chars) ==
    IF s # <<>> /\ s[Len(s)] \in chars
    THEN RStrip(SubSeq(s, 1, Len(s) - 1), chars) ELSE s

Strip(s, chars) == RStrip(LStrip(s, chars), chars)

(* --------------------------- parse_pasted_ids ------------------------- *)

\* The character class [\s,;] of the split pattern.
IsSep(c) == c \in Whitespace \cup {",", ";"}

\* re.split(r"[\s,;]+", s): the pieces between maximal runs of separators;
\* a leading or trailing run leaves an empty piece, "" gives [""].
ReSplit(s) ==
    LET step[i \in 0..Len(s)] ==
            IF i = 0 THEN [toks |-> <<>>, cur |-> <<>>, insep |-> FALSE]
            ELSE LET p == step[i - 1]
                     c == s[i]
                 IN  IF IsSep(c)
                     THEN IF p.insep THEN p
                          ELSE [toks |-> Append(p.toks, p.cur), cur |-> <<>>,
                                insep |-> TRUE]
                     ELSE [toks |-> p.toks, cur |-> Append(p.cur, c),
                           insep |-> FALSE]
        f == step[Len(s)]
    IN  Append(f.toks, f.cur)

\* t.strip().strip('"').strip("'")
CleanToken(t) == Strip(Strip(Strip(t, Whitespace), {"\""}), {"'"})

\* [CleanToken(t) for t in tokens if t.strip()]
RECURSIVE Cleaned(_)
Cleaned(tokens) ==
    IF tokens = <<>> THEN <<>>
    ELSE IF Strip(Head(tokens), Whitespace) # <<>>
         THEN <<CleanToken(Head(tokens))>> \o Cleaned(Tail(tokens))
         ELSE Cleaned(Tail(tokens))

\* Dedup without the membership test on seen.
DedupKeepAll(cleaned, out) == out \o cleaned

\* The seen/out loop: append t unless it was appended before.
RECURSIVE Dedup(_, _)
Dedup(cleaned, out) ==
    IF cleaned = <<>> THEN out
    ELSE IF Head(cleaned) \in Range(out)
         THEN Dedup(Tail(cleaned), out)
         ELSE Dedup(Tail(cleaned), Append(out, Head(cleaned)))

parse_pasted_ids(raw) ==
    IF raw = <<>> THEN <<>>
    ELSE Dedup(Cleaned(ReSplit(Strip(raw, Whitespace))), <<>>)

\* Characters of pasted text: letters in both cases, separators, quotes.
RawChars == {"a", "A", " ", ",", "\"", "'"}

RawStrings == SeqsUpTo(RawChars, MaxRawLen)

(* ------------------- specification of the parser alone ---------------- *)

\* One call parse_pasted_ids(raw_input) on the text drawn by ParseInit.
ParseCall ==
    /\ event = "init"
    /\ ids' = parse_pasted_ids(raw_input)
    /\ event' = "parse"
    /\ UNCHANGED <<gsheets_url_raw, csv_url, sheet, mapping_df, colmap,
                   raw_input, not_found, ordered, ran, messages>>

ParseInit ==
    /\ raw_input \in RawStrings
    /\ gsheets_url_raw = <<>> /\ csv_url = <<>> /\ sheet = Null
    /\ mapping_df = Null /\ colmap = Null
    /\ ids = <<>> /\ not_found = <<>>
    /\ ordered = Null /\ ran = {} /\ messages = {} /\ event = "init"

ParseNext == ParseCall

SpecParse == ParseInit /\ [][ParseNext]_vars

\* The cleaned tokens of the pasted text, in input order, before deduplication.
InputTokens(raw) ==
    IF raw = <<>> THEN <<>> ELSE Cleaned(ReSplit(Strip(raw, Whitespace)))

\* Position of the first occurrence of t in the sequence s.
FirstIdx(s, t) == CHOOSE i \in 1..Len(s) : s[i] = t /\ \A j \in 1..(i - 1) : s[j] # t

\* C1: parse_pasted_ids returns a list with no two equal elements, holding
\* exactly the input's tokens (compared as exact strings, so "A" and "a" are
\* both kept), in the order of their first occurrence in the input.
C1_UniqueFirstSeenOrder ==
    event = "parse" =>
        LET toks == InputTokens(raw_input) IN
        /\ \A i, j \in 1..Len(ids) : i # j => ids[i] # ids[j]
        /\ Range(ids) = Range(toks)
        /\ \A i, j \in 1..Len(ids) :
              i < j => FirstIdx(toks, ids[i]) < FirstIdx(toks, ids[j])

\* A repeated token and a token differing only in case: "A,a,A" gives A, a.
C1_Witness ==
    /\ event = "parse"
    /\ raw_input = <<"A", ",", "a", ",", "A">>
    /\ ids = <<<<"A">>, <<"a">>>>

\* C8: no element of the list returned by parse_pasted_ids is the empty
\* string (a token that is empty after stripping whitespace and quotes is
\* dropped).
C8_NoEmptyToken ==
    event = "parse" => \A i \in 1..Len(ids) : ids[i] # <<>>

(* --------------------------- to_csv_export_url ------------------------ *)

\* The literal the two sheet patterns start with, one symbol of a link.
PFX == "https://docs.google.com/spreadsheets/d/"

\* The literal of the tab pattern with its leading separator, one symbol.
GID == "?gid="

\* Symbols of a link that the class [a-zA-Z0-9-_] accepts, and those \d accepts.
IdChars == {"e", "7"}
Digits == {"7"}

\* The longest prefix of s made of symbols of class.
RECURSIVE Run(_, _)
Run(s, class) ==
    IF s # <<>> /\ Head(s) \in class
    THEN <<Head(s)>> \o Run(Tail(s), class) ELSE <<>>

\* re.search(lit ([class]+), s): the group of the leftmost match, or None.
Search(lit, class, s) ==
    LET n == Len(lit)
        hits == {p \in 1..(Len(s) - n) :
                    /\ SubSeq(s, p, p + n - 1) = lit
                    /\ s[p + n] \in class}
    IN  IF hits = {} THEN Null
        ELSE LET p == CHOOSE q \in hits : \A r \in hits : q <= r
             IN  Run(SubSeq(s, p + n, Len(s)), class)

EditUrl(sheet_id, gid) ==
    <<PFX>> \o sheet_id \o <<"/export?format=csv&gid=">> \o gid

PubUrl(doc_id_e, gid) ==
    <<PFX, "e", "/">> \o doc_id_e \o <<"/pub?gid=">> \o gid
        \o <<"&single=true&output=csv">>

to_csv_export_url(url) ==
    IF url = <<>> THEN <<>>
    ELSE LET u == Strip(url, Whitespace)
             m_edit == Search(<<PFX>>, IdChars, u)
             m_pub == Search(<<PFX, "e", "/">>, IdChars, u)
             gid_match == Search(<<GID>>, Digits, u)
             gid == IF gid_match # Null THEN gid_match ELSE <<"0">>
         IN  IF m_edit # Null THEN EditUrl(m_edit, gid)
             ELSE IF m_pub # Null THEN PubUrl(m_pub, gid)
             ELSE u

UrlSyms == {PFX, GID, "e", "7", "/", " "}

UrlStrings == SeqsUpTo(UrlSyms, MaxUrlLen)

(* --------------- specification of the link conversion alone ----------- *)

\* One call to_csv_export_url(gsheets_url_raw) on the link drawn by UrlInit.
UrlCall ==
    /\ event = "init"
    /\ csv_url' = to_csv_export_url(gsheets_url_raw)
    /\ event' = "url"
    /\ UNCHANGED <<gsheets_url_raw, sheet, mapping_df, colmap, raw_input, ids,
                   not_found, ordered, ran, messages>>

UrlInit ==
    /\ gsheets_url_raw \in UrlStrings
    /\ csv_url = <<>> /\ sheet = Null
    /\ mapping_df = Null /\ colmap = Null
    /\ raw_input = <<>> /\ ids = <<>> /\ not_found = <<>>
    /\ ordered = Null /\ ran = {} /\ messages = {} /\ event = "init"

UrlNext == UrlCall

SpecUrl == UrlInit /\ [][UrlNext]_vars

\* Where the separately-published form .../d/e/<id> starts in a link, and
\* where an owner-shared form .../d/<id> starts.
PubStarts(u) ==
    {p \in 1..(Len(u) - 3) :
        u[p] = PFX /\ u[p + 1] = "e" /\ u[p + 2] = "/" /\ u[p + 3] \in IdChars}
SharedStarts(u) ==
    {p \in 1..(Len(u) - 1) : u[p] = PFX /\ u[p + 1] \in IdChars} \ PubStarts(u)

\* The tab identifier of a link: the digits after the first "?gid=" that has
\* digits after it, "0" when there is none.
GidOf(u) ==
    LET hits == {p \in 1..(Len(u) - 1) : u[p] = GID /\ u[p + 1] \in Digits}
    IN  IF hits = {} THEN <<"0">>
        ELSE Run(SubSeq(u, First(hits) + 1, Len(u)), Digits)

\* C6: a link in the separately-published form gives that form's export URL
\* .../d/e/<id>/pub?gid=<gid>&single=true&output=csv; an owner-shared link
\* gives .../d/<id>/export?format=csv&gid=<gid>; a link with no recognizable
\* identifier is returned as it is (up to surrounding whitespace).
C6_ExportUrlByForm ==
    event = "url" =>
        LET u == Strip(gsheets_url_raw, Whitespace) IN
        IF PubStarts(u) # {} /\ (SharedStarts(u) = {} \/ First(PubStarts(u)) < First(SharedStarts(u)))
        THEN csv_url = PubUrl(Run(SubSeq(u, First(PubStarts(u)) + 3, Len(u)), IdChars), GidOf(u))
        ELSE IF SharedStarts(u) # {}
        THEN csv_url = EditUrl(Run(SubSeq(u, First(SharedStarts(u)) + 1, Len(u)), IdChars), GidOf(u))
        ELSE csv_url = u

(* ------------------------------- tables -------------------------------- *)

\* A DataFrame is [columns |-> sequence of header strings,
\*                 rows    |-> sequence of rows, each a sequence of cells
\*                             aligned with columns].

\* "New Item No."
H_NewItemNo ==
    <<"N", "e", "w", " ", "I", "t", "e", "m", " ", "N", "o", ".">>
\* "OLD Item-variant"
H_OldItemVariant ==
    <<"O", "L", "D", " ", "I", "t", "e", "m", "-", "v", "a", "r", "i", "a", "n", "t">>
\* "Ean no."
H_EanNo ==
    <<"E", "a", "n", " ", "n", "o", ".">>
\* "Description"
H_Description ==
    <<"D", "e", "s", "c", "r", "i", "p", "t", "i", "o", "n">>
\* "Family"
H_Family ==
    <<"F", "a", "m", "i", "l", "y">>
\* "Category"
H_Category ==
    <<"C", "a", "t", "e", "g", "o", "r", "y">>

OUTPUT_HEADERS ==
    <<H_NewItemNo, H_OldItemVariant, H_EanNo, H_Description, H_Family, H_Category>>

UpperLetters == <<"A", "B", "C", "D", "E", "F", "G", "H", "I", "J", "K", "L", "M", "N", "O", "P", "Q", "R", "S", "T", "U", "V", "W", "X", "Y", "Z">>
LowerLetters == <<"a", "b", "c", "d", "e", "f", "g", "h", "i", "j", "k", "l", "m", "n", "o", "p", "q", "r", "s", "t", "u", "v", "w", "x", "y", "z">>

\* str.lower() on one character and on a string.
LowerTable ==
    [c \in Range(UpperLetters) |->
        LowerLetters[CHOOSE i \in 1..Len(UpperLetters) : UpperLetters[i] = c]]
LowerChar(c) == IF c \in DOMAIN LowerTable THEN LowerTable[c] ELSE c
Lower(str) == [i \in 1..Len(str) |-> LowerChar(str[i])]

\* A dict is a function on its keys; d.get(k) is None for a missing key.
EmptyDict == [k \in {} |-> Null]
DictPut(d, k, v) == [x \in DOMAIN d \cup {k} |-> IF x = k THEN v ELSE d[x]]
DictGet(d, k) == IF k \in DOMAIN d THEN d[k] ELSE Null

\* Python truthiness of a string-or-None value.
Truthy(x) == x # Null /\ x # <<>>

\* {c.lower(): c for c in columns}: a later column overwrites an earlier one.
RECURSIVE LowerMap(_)
LowerMap(columns) ==
    IF columns = <<>> THEN EmptyDict
    ELSE LET n == Len(columns)
         IN  DictPut(LowerMap(SubSeq(columns, 1, n - 1)),
                     Lower(columns[n]), columns[n])

map_case_insensitive(df, names) ==
    LET lower_map == LowerMap(df.columns)
    IN  [name \in Range(names) |-> DictGet(lower_map, Lower(name))]

\* Position of the column called name (headers of a loaded table are distinct).
ColIndex(columns, name) == CHOOSE i \in 1..Len(columns) : columns[i] = name

\* df[h] = value: overwrite the column h, or append it when there is none.
SetColumn(df, h, value) ==
    IF h \in Range(df.columns)
    THEN [columns |-> df.columns,
          rows |-> [r \in 1..Len(df.rows) |->
                      [df.rows[r] EXCEPT ![ColIndex(df.columns, h)] = value]]]
    ELSE [columns |-> Append(df.columns, h),
          rows |-> [r \in 1..Len(df.rows) |-> Append(df.rows[r], value)]]

\* df[cols]: the named columns, in the order of cols.
SelectColumns(df, cols) ==
    [columns |-> cols,
     rows |-> [r \in 1..Len(df.rows) |->
                 [j \in 1..Len(cols) |-> df.rows[r][ColIndex(df.columns, cols[j])]]]]

\* out.rename(columns=rename_map)
RenameColumns(df, rename_map) ==
    [columns |-> [j \in 1..Len(df.columns) |->
                    IF df.columns[j] \in DOMAIN rename_map
                    THEN rename_map[df.columns[j]] ELSE df.columns[j]],
     rows |-> df.rows]

\* The loop over OUTPUT_HEADERS: cols collects the column to take for each
\* header, df gains a None column for each header without a source column.
RECURSIVE SelectLoop(_, _, _, _)
SelectLoop(df, cm, cols, k) ==
    IF k > Len(OUTPUT_HEADERS) THEN [df |-> df, cols |-> cols]
    ELSE LET h == OUTPUT_HEADERS[k]
             actual == DictGet(cm, h)
         IN  IF Truthy(actual) /\ actual \in Range(df.columns)
             THEN SelectLoop(df, cm, Append(cols, actual), k + 1)
             ELSE SelectLoop(SetColumn(df, h, Null), cm, Append(cols, h), k + 1)

\* {colmap[h]: h for h in OUTPUT_HEADERS if colmap.get(h) and colmap[h] != h}
RECURSIVE RenameMap(_, _)
RenameMap(cm, k) ==
    IF k = 0 THEN EmptyDict
    ELSE LET h == OUTPUT_HEADERS[k]
             m == RenameMap(cm, k - 1)
         IN  IF Truthy(DictGet(cm, h)) /\ cm[h] # h THEN DictPut(m, cm[h], h) ELSE m

\* select_order_and_rename without the rename step.
select_without_rename(df, cm) ==
    LET l == SelectLoop(df, cm, <<>>, 1) IN SelectColumns(l.df, l.cols)

select_order_and_rename(df, cm) ==
    LET l == SelectLoop(df, cm, <<>>, 1)
        out == SelectColumns(l.df, l.cols)
        rename_map == RenameMap(cm, Len(OUTPUT_HEADERS))
    IN  IF DOMAIN rename_map # {} THEN RenameColumns(out, rename_map) ELSE out

\* required = OUTPUT_HEADERS + ["OLD Item-variant", "Ean no."]
required == OUTPUT_HEADERS \o <<H_OldItemVariant, H_EanNo>>

(* ------------- specification of the column helpers alone -------------- *)

\* Headers a sheet may carry: canonical names, case variants, an unrelated one.
HeaderPool ==
    {H_Family, <<"F", "A", "M", "I", "L", "Y">>, H_EanNo, <<"E", "A", "N", " ", "N", "O", ".">>,
     H_OldItemVariant, <<"o", "l", "d", " ", "i", "t", "e", "m", "-", "v", "a", "r", "i", "a", "n", "t">>, <<"C", "o", "l", "o", "u", "r">>}

\* Header rows: distinct headers (read_csv renames repeated ones apart).
HeaderRows(pool, n) ==
    {cs \in SeqsUpTo(pool, n) : \A i, j \in 1..Len(cs) : i # j => cs[i] # cs[j]}

DigitChars == <<"1", "2", "3", "4", "5", "6", "7", "8", "9">>

\* A table whose cell in row r, column c is the two-character string "rc",
\* so that every cell tells where it came from.
LabelledTable(columns, n) ==
    [columns |-> columns,
     rows |-> [r \in 1..n |-> [c \in 1..Len(columns) |-> <<DigitChars[r], DigitChars[c]>>]]]

MapTables ==
    {LabelledTable(cs, n) : cs \in HeaderRows(HeaderPool, MaxCols), n \in 0..MaxRows}

\* colmap = map_case_insensitive(mapping_df, required)
MapColumns ==
    /\ event = "init"
    /\ colmap' = map_case_insensitive(mapping_df, required)
    /\ event' = "colmap"
    /\ UNCHANGED <<gsheets_url_raw, csv_url, sheet, mapping_df, raw_input, ids,
                   not_found, ordered, ran, messages>>

\* ordered = select_order_and_rename(mapping_df, colmap)
Project ==
    /\ event = "colmap"
    /\ ordered' = select_order_and_rename(mapping_df, colmap)
    /\ event' = "project"
    /\ UNCHANGED <<gsheets_url_raw, csv_url, sheet, mapping_df, colmap,
                   raw_input, ids, not_found, ran, messages>>

MapInit ==
    /\ mapping_df \in MapTables
    /\ gsheets_url_raw = <<>> /\ csv_url = <<>> /\ sheet = Null
    /\ colmap = Null
    /\ raw_input = <<>> /\ ids = <<>> /\ not_found = <<>>
    /\ ordered = Null /\ ran = {} /\ messages = {} /\ event = "init"

MapNext == MapColumns \/ Project

SpecMap == MapInit /\ [][MapNext]_vars

\* The headers of the table that equal name when case is ignored.
CaseMatches(columns, name) ==
    {i \in 1..Len(columns) : Lower(columns[i]) = Lower(name)}

\* C3: the table returned by select_order_and_rename has exactly the canonical
\* output columns in their fixed order; a canonical column with no source
\* column holds None in every row, a resolved one holds the values of the
\* source column the column map names, row by row.
C3_CanonicalColumns ==
    event = "project" =>
        /\ ordered.columns = OUTPUT_HEADERS
        /\ Len(ordered.rows) = Len(mapping_df.rows)
        /\ \A r \in 1..Len(ordered.rows) : \A k \in 1..Len(OUTPUT_HEADERS) :
             IF CaseMatches(mapping_df.columns, OUTPUT_HEADERS[k]) = {}
             THEN ordered.rows[r][k] = Null
             ELSE /\ colmap[OUTPUT_HEADERS[k]] \in Range(mapping_df.columns)
                  /\ ordered.rows[r][k] =
                       mapping_df.rows[r][ColIndex(mapping_df.columns,
                                                   colmap[OUTPUT_HEADERS[k]])]

\* A table with a differently-cased key header, a missing payload column and
\* a row: "EAN NO." is renamed and carries its cell, Family is all None.
C3_Witness ==
    /\ event = "project"
    /\ mapping_df.columns = <<<<"E", "A", "N", " ", "N", "O", ".">>, H_OldItemVariant>>
    /\ Len(mapping_df.rows) = 1
    /\ ordered.rows[1] = <<Null, <<"1", "2">>, <<"1", "1">>, Null, Null, Null>>

\* C9: map_case_insensitive resolves each required name to the first header,
\* in column order, that equals it when case is ignored, and to None when no
\* header does.
C9_FirstMatchWins ==
    event \in {"colmap", "project"} =>
        \A name \in Range(required) :
            LET hits == CaseMatches(mapping_df.columns, name)
            IN  IF hits = {} THEN colmap[name] = Null
                ELSE colmap[name] = mapping_df.columns[First(hits)]

(* ------------------------- the script, top to bottom ------------------- *)

\* DEFAULT_SHEET_URL in the symbols of a link: the literal prefix, the
\* document id "e7", "/e" for "/edit" and the tab "?gid=7".
DEFAULT_SHEET_URL == <<PFX, "e", "7", "/", "e", GID, "7">>

\* pd.DataFrame()
EmptyFrame == [columns |-> <<>>, rows |-> <<>>]

\* DataFrame.empty: no columns or no rows.
IsEmpty(df) == df.columns = <<>> \/ df.rows = <<>>

\* df[c] = df[c].astype(str).str.strip() for every column c of columns.
StripColumns(df, columns) ==
    [columns |-> df.columns,
     rows |-> [r \in 1..Len(df.rows) |->
                 [j \in 1..Len(df.columns) |->
                    IF df.columns[j] \in columns
                    THEN Strip(df.rows[r][j], Whitespace) ELSE df.rows[r][j]]]]

\* read_mapping_from_gsheets(csv_url), sht being what the sheet service holds
\* for the default document (no header row when the document is not shared or
\* has no content): an empty link gives an empty frame; the export link of the
\* document gives its table with every cell stripped; any other link, and a
\* document without content, raises in read_csv, which is reported with
\* st.error and gives an empty frame.  The sheet does not change during a
\* session, so the cache of st.cache_data returns what a fresh read would.
read_mapping_from_gsheets(url, sht) ==
    IF url = <<>> THEN [df |-> EmptyFrame, msgs |-> {}]
    ELSE IF url = EditUrl(<<"e", "7">>, <<"7">>) /\ sht.columns # <<>>
         THEN [df |-> StripColumns(sht, Range(sht.columns)), msgs |-> {}]
         ELSE [df |-> EmptyFrame, msgs |-> {"error_read"}]

\* work[old_col].isin(ids) | work[ean_col].isin(ids), one boolean per row.
LookupMaskOldOnly(work, old_col, ean_col, tokens) ==
    [r \in 1..Len(work.rows) |->
        work.rows[r][ColIndex(work.columns, old_col)] \in Range(tokens)]

LookupMask(work, old_col, ean_col, tokens) ==
    [r \in 1..Len(work.rows) |->
        \/ work.rows[r][ColIndex(work.columns, old_col)] \in Range(tokens)
        \/ work.rows[r][ColIndex(work.columns, ean_col)] \in Range(tokens)]

\* work.loc[mask]: the rows whose mask is true, in table order.
RECURSIVE RowsWhere(_, _, _)
RowsWhere(rows, mask, k) ==
    IF k > Len(rows) THEN <<>>
    ELSE IF mask[k] THEN <<rows[k]>> \o RowsWhere(rows, mask, k + 1)
         ELSE RowsWhere(rows, mask, k + 1)

\* set(matches[old_col]) | set(matches[ean_col])
MatchedKeysOldOnly(matches, old_col, ean_col) ==
    {matches.rows[r][ColIndex(matches.columns, old_col)] : r \in 1..Len(matches.rows)}

MatchedKeys(matches, old_col, ean_col) ==
    {matches.rows[r][ColIndex(matches.columns, old_col)] : r \in 1..Len(matches.rows)}
    \cup
    {matches.rows[r][ColIndex(matches.columns, ean_col)] : r \in 1..Len(matches.rows)}

\* [x for x in ids if x in matched_keys]
NotFoundInverted(tokens, matched_keys) ==
    LET Hit(x) == x \in matched_keys IN SelectSeq(tokens, Hit)

\* [x for x in ids if x not in matched_keys]
NotFound(tokens, matched_keys) ==
    LET Miss(x) == x \notin matched_keys IN SelectSeq(tokens, Miss)

\* What a run leaves when it stops before the stage that sets a variable.
Unset == [csv_url |-> <<>>, mapping_df |-> Null, colmap |-> Null, ids |-> <<>>,
          not_found |-> <<>>, ordered |-> Null, ran |-> {}, messages |-> {}]

\* Step 3 of the script, once ids is known to be non-empty: lookup, not-found
\* list, projection, feedback, and the table and download unless no row matched.
Results(work, cm, tokens) ==
    LET old_col == cm[H_OldItemVariant]
        ean_col == cm[H_EanNo]
        Feedback(nf, ord) ==
            [not_found |-> nf, ordered |-> ord,
             ran |-> {"lookup", "project"}
                       \cup (IF IsEmpty(ord) THEN {} ELSE {"table", "export"}),
             messages |-> (IF nf # <<>> THEN {"warning_not_found"} ELSE {})
                            \cup (IF IsEmpty(ord) THEN {"error_no_match"} ELSE {})]
        FromMatches(matches) ==
            Bind(NotFound(tokens, MatchedKeys(matches, old_col, ean_col)),
                 LAMBDA nf : Bind(select_order_and_rename(matches, cm),
                                  LAMBDA ord : Feedback(nf, ord)))
    IN  Bind(LookupMask(work, old_col, ean_col, tokens),
             LAMBDA mask :
                Bind([columns |-> work.columns, rows |-> RowsWhere(work.rows, mask, 1)],
                     FromMatches))

\* The script without the stop on an empty table.
RunScriptNoEmptyStop(url, sht, raw) ==
    LET Loaded(csv, load) ==
            [Unset EXCEPT !.csv_url = csv, !.mapping_df = load.df,
                          !.ran = {"load"}, !.messages = load.msgs]
        Step3(loaded, cm, work, tokens) ==
            LET parsed == [loaded EXCEPT !.colmap = cm, !.ids = tokens,
                                         !.ran = @ \cup {"colmap", "parse"}]
            IN  IF tokens = <<>>
                THEN [parsed EXCEPT !.messages = @ \cup {"info_paste"}]
                ELSE Bind(Results(work, cm, tokens),
                          LAMBDA res :
                            [parsed EXCEPT !.not_found = res.not_found,
                                           !.ordered = res.ordered,
                                           !.ran = @ \cup res.ran,
                                           !.messages = @ \cup res.messages])
        Step2(loaded, cm) ==
            IF ~Truthy(cm[H_OldItemVariant]) \/ ~Truthy(cm[H_EanNo])
            THEN [loaded EXCEPT !.colmap = cm, !.ran = @ \cup {"colmap"},
                                !.messages = @ \cup {"error_columns"}]
            ELSE Bind(StripColumns(loaded.mapping_df,
                                   {cm[H_OldItemVariant], cm[H_EanNo]}),
                      LAMBDA work :
                        Bind(parse_pasted_ids(raw),
                             LAMBDA tokens : Step3(loaded, cm, work, tokens)))
        Step1(loaded) ==
            Bind(map_case_insensitive(loaded.mapping_df, required),
                 LAMBDA cm : Step2(loaded, cm))
    IN  Bind(to_csv_export_url(url),
             LAMBDA csv :
               Bind(IF csv # <<>> THEN read_mapping_from_gsheets(csv, sht)
                    ELSE [df |-> EmptyFrame, msgs |-> {}],
                    LAMBDA load : Bind(Loaded(csv, load), Step1)))

\* The script that always takes the "paste your IDs" branch of step 3.
RunScriptNoLookup(url, sht, raw) ==
    LET Cut(full) ==
        IF IsEmpty(full.mapping_df)
        THEN [Unset EXCEPT !.csv_url = full.csv_url, !.mapping_df = full.mapping_df,
                           !.ran = {"load"},
                           !.messages = full.messages \cup {"info_source"}]
        ELSE IF "lookup" \in full.ran
        THEN [full EXCEPT !.not_found = <<>>, !.ordered = Null,
                          !.ran = {"load", "colmap", "parse"},
                          !.messages = {"info_paste"}]
        ELSE full
    IN  Bind(RunScriptNoEmptyStop(url, sht, raw), Cut)

\* One run of the script on the widget values url and raw: everything the
\* run computes and shows.  ran names the stages the run executed, messages
\* the st.info / st.warning / st.error boxes it showed; st.stop() ends the
\* run where it stands.
RunScript(url, sht, raw) ==
    LET Loaded(csv, load) ==
            [Unset EXCEPT !.csv_url = csv, !.mapping_df = load.df,
                          !.ran = {"load"}, !.messages = load.msgs]
        Step3(loaded, cm, work, tokens) ==
            LET parsed == [loaded EXCEPT !.colmap = cm, !.ids = tokens,
                                         !.ran = @ \cup {"colmap", "parse"}]
            IN  IF tokens = <<>>
                THEN [parsed EXCEPT !.messages = @ \cup {"info_paste"}]
                ELSE Bind(Results(work, cm, tokens),
                          LAMBDA res :
                            [parsed EXCEPT !.not_found = res.not_found,
                                           !.ordered = res.ordered,
                                           !.ran = @ \cup res.ran,
                                           !.messages = @ \cup res.messages])
        Step2(loaded, cm) ==
            IF ~Truthy(cm[H_OldItemVariant]) \/ ~Truthy(cm[H_EanNo])
            THEN [loaded EXCEPT !.colmap = cm, !.ran = @ \cup {"colmap"},
                                !.messages = @ \cup {"error_columns"}]
            ELSE Bind(StripColumns(loaded.mapping_df,
                                   {cm[H_OldItemVariant], cm[H_EanNo]}),
                      LAMBDA work :
                        Bind(parse_pasted_ids(raw),
                             LAMBDA tokens : Step3(loaded, cm, work, tokens)))
        Step1(loaded) ==
            IF IsEmpty(loaded.mapping_df)
            THEN [loaded EXCEPT !.messages = @ \cup {"info_source"}]
            ELSE Bind(map_case_insensitive(loaded.mapping_df, required),
                      LAMBDA cm : Step2(loaded, cm))
    IN  Bind(to_csv_export_url(url),
             LAMBDA csv :
               Bind(IF csv # <<>> THEN read_mapping_from_gsheets(csv, sht)
                    ELSE [df |-> EmptyFrame, msgs |-> {}],
                    LAMBDA load : Bind(Loaded(csv, load), Step1)))

(* ------------------------- the app in a session ------------------------ *)

\* Key cells of the sheet, as typed there: one needs trimming, one is a value
\* no pasted token equals.
KeyPool == {<<"a", " ">>, <<"b">>}

\* Header rows of the sheet: one with both key columns, differently cased and
\* reordered, and one without the EAN column.  field says which value of a
\* row the column holds.
SheetLayouts ==
    {<<[header |-> <<"E", "A", "N", " ", "N", "O", ".">>, field |-> "ean"],
       [header |-> H_OldItemVariant, field |-> "old"],
       [header |-> <<"f", "a", "m", "i", "l", "y">>, field |-> "new"]>>,
     <<[header |-> H_OldItemVariant, field |-> "old"],
       [header |-> H_Family, field |-> "new"]>>}

\* The sheet with the given layout and key values; the payload cell of row r
\* is "pr", different in every row.
SheetOf(layout, keys) ==
    [columns |-> [c \in 1..Len(layout) |-> layout[c].header],
     rows |-> [r \in 1..Len(keys) |->
                 [c \in 1..Len(layout) |->
                    IF layout[c].field = "old" THEN keys[r].old
                    ELSE IF layout[c].field = "ean" THEN keys[r].ean
                    ELSE <<"p", DigitChars[r]>>]]]

Sheets ==
    {SheetOf(l, keys) : l \in SheetLayouts,
                        keys \in SeqsUpTo([old : KeyPool, ean : KeyPool], MaxSheetRows)}

\* Characters of the text pasted in a session.
PasteChars == {"a", "A", ","}

\* Links entered in a session: the default one, or none.
SessionUrls == {DEFAULT_SHEET_URL, <<>>}

\* The script reruns on the current widget values and replaces what it showed.
Rerun(url, raw, ev) ==
    \E out \in {RunScript(url, sheet, raw)} :
    /\ gsheets_url_raw' = url
    /\ raw_input' = raw
    /\ csv_url' = out.csv_url
    /\ mapping_df' = out.mapping_df
    /\ colmap' = out.colmap
    /\ ids' = out.ids
    /\ not_found' = out.not_found
    /\ ordered' = out.ordered
    /\ ran' = out.ran
    /\ messages' = out.messages
    /\ event' = ev
    /\ UNCHANGED sheet

\* The first run of a session: default link, empty text area.
Init ==
    /\ sheet \in Sheets \cup {EmptyFrame}
    /\ gsheets_url_raw = DEFAULT_SHEET_URL
    /\ raw_input = <<>>
    /\ \E out \in {RunScript(DEFAULT_SHEET_URL, sheet, <<>>)} :
        /\ csv_url = out.csv_url
        /\ mapping_df = out.mapping_df
        /\ colmap = out.colmap
        /\ ids = out.ids
        /\ not_found = out.not_found
        /\ ordered = out.ordered
        /\ ran = out.ran
        /\ messages = out.messages
    /\ event = "init"

\* The user changes the text area (st.text_area), here by one more character
\* or by clearing it, and the script reruns.  No other widget is touched.
EditText ==
    \E raw \in {Append(raw_input, c) : c \in PasteChars} \cup {<<>>} :
        /\ raw # raw_input
        /\ Len(raw) <= MaxPasteLen
        /\ Rerun(gsheets_url_raw, raw, "text")

\* The user changes the link (st.text_input): the script reruns.
EditLink ==
    \E url \in SessionUrls :
        /\ url # gsheets_url_raw
        /\ Rerun(url, raw_input, "link")

\* The user presses the download button, shown only after the result table:
\* the script reruns on unchanged widget values.
Download ==
    /\ "export" \in ran
    /\ Rerun(gsheets_url_raw, raw_input, "download")

Next == EditText \/ EditLink \/ Download

Spec == Init /\ [][Next]_vars

(* ----------------------- the claims about a session -------------------- *)

\* The reference table as the sheet holds it: the column of the sheet whose
\* header is name when case is ignored, and the trimmed value of row r in it.
SheetCol(name) == First(CaseMatches(sheet.columns, name))
RefValue(r, name) == Strip(sheet.rows[r][SheetCol(name)], Whitespace)

\* Reference row r has the token t as its old identifier or as its EAN.
RowMatches(r, t) ==
    RefValue(r, H_OldItemVariant) = t \/ RefValue(r, H_EanNo) = t

\* Reference row r in the canonical output columns.
Expected(r) ==
    [k \in 1..Len(OUTPUT_HEADERS) |->
        IF CaseMatches(sheet.columns, OUTPUT_HEADERS[k]) = {} THEN Null
        ELSE RefValue(r, OUTPUT_HEADERS[k])]

\* The rows of the result table that carry t in the old-identifier or EAN column.
ResultRowsOf(t) ==
    {j \in 1..Len(ordered.rows) : ordered.rows[j][2] = t \/ ordered.rows[j][3] = t}

StructuralError ==
    \/ IsEmpty(mapping_df)
    \/ CaseMatches(mapping_df.columns, H_OldItemVariant) = {}
    \/ CaseMatches(mapping_df.columns, H_EanNo) = {}

\* C4: when the load yields an empty table or a key column is not resolved,
\* the run stops with a message to the user before parsing: it parses no
\* token, performs no lookup, shows no table and produces no export.
C4_StructuralErrorStops ==
    StructuralError =>
        /\ ran \cap {"parse", "lookup", "project", "table", "export"} = {}
        /\ messages \cap {"info_source", "error_columns"} # {}
        /\ ids = <<>> /\ not_found = <<>>

\* A sheet with rows but no EAN column, and pasted text that holds a token.
C4_Witness ==
    /\ ~IsEmpty(mapping_df)
    /\ CaseMatches(mapping_df.columns, H_EanNo) = {}
    /\ InputTokens(raw_input) # <<>>
    /\ event = "text"
    /\ "error_columns" \in messages

\* C5: when a token equals the trimmed old identifier or EAN of reference
\* rows, every one of those rows is in the result, with its own payload.
C5_AllMatchingRowsReturned ==
    "lookup" \in ran =>
        \A i \in 1..Len(ids) : \A r \in 1..Len(sheet.rows) :
            RowMatches(r, ids[i]) =>
                \E j \in 1..Len(ordered.rows) : ordered.rows[j] = Expected(r)

\* A token that two reference rows carry, one as old identifier and one as
\* EAN: both rows are in the result, with different payloads.
C5_Witness ==
    /\ "table" \in ran
    /\ Len(sheet.rows) = 2
    /\ ids = <<<<"a">>>>
    /\ RefValue(1, H_OldItemVariant) = <<"a">> /\ RefValue(1, H_EanNo) = <<"b">>
    /\ RefValue(2, H_OldItemVariant) = <<"b">> /\ RefValue(2, H_EanNo) = <<"a">>
    /\ Len(ordered.rows) = 2
    /\ ordered.rows[1][5] # ordered.rows[2][5]

\* C7 as stated: a run caused by a change of the pasted text alone never
\* performs the lookup.
C7_NoLookupOnTextChange ==
    event = "text" => "lookup" \notin ran

\* C7 as the code has it: whatever event caused the run, the lookup is
\* performed exactly when the loaded table is non-empty with both key columns
\* and the pasted text holds a token.
C7_LookupOnEveryRerun ==
    ("lookup" \in ran) = (~StructuralError /\ InputTokens(raw_input) # <<>>)

\* A change of the text alone has run the lookup and shown the table.
C7_Witness ==
    event = "text" /\ {"parse", "lookup", "project", "table"} \subseteq ran

\* C10: a token is in the not-found list exactly when no row of the result
\* has it as old identifier or EAN, and the list keeps the tokens' order.
C10_NotFoundPartition ==
    "lookup" \in ran =>
        /\ \A i \in 1..Len(ids) :
             (ids[i] \in Range(not_found)) = (ResultRowsOf(ids[i]) = {})
        /\ Range(not_found) \subseteq Range(ids)
        /\ LET Listed(t) == t \in Range(not_found)
           IN  not_found = SelectSeq(ids, Listed)

\* The first token is not found, the second is found through the EAN column only.
C10_Witness ==
    /\ "table" \in ran
    /\ ids = <<<<"A">>, <<"a">>>>
    /\ not_found = <<<<"A">>>>
    /\ \A r \in 1..Len(sheet.rows) : RefValue(r, H_OldItemVariant) # <<"a">>

====
